---- MODULE Spec2Model ----
(***************************************************************************)
(* A model of festerize (src/main.go): the command line is validated, the  *)
(* output directory is created or confirmed, and every SRC path is         *)
(* resolved, uploaded to Fester and, on a 201 answer, saved to the output  *)
(* directory.  Strings that the code takes apart (paths, the answer typed  *)
(* on stdin) are sequences of one-character strings; a response body is a  *)
(* sequence of tokens (tags and text), and a file holds such a sequence.   *)
(*                                                                         *)
(* What the operating system, the network and the HTML parser answer is    *)
(* chosen in the action that asks.  The Debug entry of uploadCSV about a   *)
(* missing .env file is not modelled: environ is the environment after     *)
(* godotenv.Load.  Logger calls are recorded as made, at every level.      *)
(***************************************************************************)
EXTENDS Integers, Sequences, FiniteSets, TLC

\* ------------------------------------------------------------- bounds
\* The largest number of SRC arguments on the command line.
MaxPaths == 2

\* ------------------------------------------------- program constants
NoFilesSpecified == 1
NonExistentFileSpecified == 2
NonCsvFileSpecified == 3
FesterUnavailable == 4
\* A mutant of FesterErrorResponse: a failed upload counts as Fester being
\* unavailable.
FesterErrorResponseAsUnavailable == FesterUnavailable

FesterErrorResponse == 5
FileIoError == 6
InvalidOutputSpecified == 7

\* The one status main takes for a success (response.StatusCode == 201).
StatusCreated == 201

\* ------------------------------------------------------------ strings
\* strings.ToLower / the simple case folding of strings.EqualFold, on the
\* letters the model's strings are made of.
ToLowerChar(c) ==
    CASE c = "C" -> "c"
      [] c = "S" -> "s"
      [] c = "V" -> "v"
      [] c = "Y" -> "y"
      [] c = "E" -> "e"
      [] c = "N" -> "n"
      [] c = "O" -> "o"
      [] OTHER -> c

ToLower(s) == [i \in 1..Len(s) |-> ToLowerChar(s[i])]

\* A mutant of EqualFold: only the lengths are compared.
EqualFoldLengthOnly(s, t) == Len(s) = Len(t)

EqualFold(s, t) ==
    /\ Len(s) = Len(t)
    /\ \A i \in 1..Len(s) : ToLowerChar(s[i]) = ToLowerChar(t[i])

\* A mutant of Ext: the suffix beginning at the first dot.
ExtFirstDot(path) ==
    LET dots == {i \in 1..Len(path) : path[i] = "."} IN
    IF dots = {} THEN <<>>
    ELSE SubSeq(path, CHOOSE i \in dots : \A j \in dots : i <= j, Len(path))

\* filepath.Ext: the suffix beginning at the final dot of the final element.
RECURSIVE ExtFrom(_, _)
ExtFrom(path, i) ==
    IF i < 1 \/ path[i] = "/" THEN <<>>
    ELSE IF path[i] = "." THEN SubSeq(path, i, Len(path))
    ELSE ExtFrom(path, i - 1)

Ext(path) == ExtFrom(path, Len(path))

\* filepath.Base: the last element of the path, "." for the empty path.
RECURSIVE StripSlashes(_)
StripSlashes(path) ==
    IF Len(path) > 0 /\ path[Len(path)] = "/"
    THEN StripSlashes(SubSeq(path, 1, Len(path) - 1))
    ELSE path

RECURSIVE LastSlash(_, _)
LastSlash(path, i) ==
    IF i < 1 THEN 0
    ELSE IF path[i] = "/" THEN i
    ELSE LastSlash(path, i - 1)

Base(path) ==
    IF path = <<>> THEN <<".">>
    ELSE LET p == StripSlashes(path)
             q == SubSeq(p, LastSlash(p, Len(p)) + 1, Len(p))
         IN  IF q = <<>> THEN <<"/">> ELSE q

\* filepath.Join of two clean, non-empty paths.
Join(dir, name) == dir \o <<"/">> \o name

\* The process working directory.
Cwd == <<"/", "w">>

\* filepath.Abs when os.Getwd succeeds (the model's paths are clean).
Abs(path) ==
    IF path # <<>> /\ path[1] = "/" THEN path ELSE Join(Cwd, path)

\* ------------------------------------------------------- input domains
PathACsv == <<"a", ".", "c", "s", "v">>
PathDACsv == <<"d", "/", "a", ".", "c", "s", "v">>
PathBUpper == <<"b", ".", "C", "S", "V">>
PathCTxt == <<"c", ".", "t", "x", "t">>

Paths == {PathACsv, PathDACsv, PathBUpper, PathCTxt}

\* More file names, for the runs with a single SRC argument.
PathEMixed == <<"e", ".", "C", "s", "v">>
PathNoExt == <<"c", "s", "v">>
PathCsvTxt == <<"f", ".", "c", "s", "v", ".", "t", "x", "t">>
PathTxtCsv == <<"g", ".", "t", "x", "t", ".", "c", "s", "v">>
PathDotDir == <<"h", ".", "c", "s", "v", "/", "i">>

CliPaths ==
    {PathACsv, PathBUpper, PathCTxt, PathEMixed, PathNoExt, PathCsvTxt,
     PathTxtCsv, PathDotDir}

RECURSIVE SeqsOfLen(_, _)
SeqsOfLen(S, n) ==
    IF n = 0 THEN {<<>>}
    ELSE {Append(s, x) : s \in SeqsOfLen(S, n - 1), x \in S}

ArgLists == UNION {SeqsOfLen(Paths, n) : n \in 0..MaxPaths}

\* Command lines with no SRC argument or a single one.
CliArgLists == {<<>>} \cup {<<p>> : p \in CliPaths}

\* Values of --iiif-api-version and --loglevel on the command line; "" stands
\* for a flag that is not given, which leaves the default of init().
VersionFlags == {"", "2", "4"}
LoglevelFlags == {"", "WARN"}

CliVersionFlags == {"", "1", "2", "3", "4"}
CliLoglevelFlags == {"", "INFO", "DEBUG", "ERROR", "WARN", "info"}
CliHosts == {"", "http://iiif"}

\* What is typed at the prompt of CreateOutputDir: the word fmt.Scanln reads
\* from a line of standard input.
StdinAnswers == {<<>>, <<"y">>, <<"Y", "E", "S">>, <<"n">>}

CliStdinAnswers ==
    StdinAnswers \cup {<<"Y">>, <<"y", "e", "s">>, <<"Y", "e", "s">>,
                       <<"n", "o">>, <<"N", "O">>, <<"y", "e">>,
                       <<"y", "e", "s", "s">>}

\* Response bodies: tokens of an HTML document, or lines of a CSV.
OpenErrorMessage == "<div id=error-message>"
OpenTags == {OpenErrorMessage, "<p>"}
CloseTags == {"</div>", "</p>"}

\* A path as one string.
RECURSIVE PathString(_)
PathString(path) ==
    IF path = <<>> THEN "" ELSE Head(path) \o PathString(Tail(path))

\* The CSV Fester returns for an uploaded file: the rows of the file (which
\* the model tells apart by the name it was uploaded under) with a column
\* added.
BodyCsv(file) == <<"id,url", "1," \o PathString(file)>>
BodyCause == <<"<p>", "Error", "</p>", OpenErrorMessage, "Invalid row 3", "</div>">>
BodyEmptyCause == <<OpenErrorMessage, "</div>">>
BodyNoCause == <<"<p>", "Error", "</p>">>
\* A body html.Parse returns an error for (elements nested beyond what the
\* parser accepts).
BodyRejected == <<"<p>", "<p>", "<p>", "<p>", "<p>">>

\* What the service may answer to the upload of a file: a status code and a
\* body.
Answers(file) ==
    { [status |-> 201, body |-> BodyCsv(file)],
      [status |-> 200, body |-> BodyCsv(file)],
      [status |-> 422, body |-> BodyCause],
      [status |-> 422, body |-> BodyEmptyCause],
      [status |-> 500, body |-> BodyNoCause],
      [status |-> 500, body |-> BodyRejected] }

\* A file left in the output directory by an earlier run.
StaleFile == <<"old", "old", "old">>

\* goquery: doc.Find("#error-message").Text(), the text nodes below the
\* elements with that id, concatenated in document order.
RECURSIVE TextFrom(_, _, _)
TextFrom(body, i, depth) ==
    IF i > Len(body) THEN <<>>
    ELSE LET t == body[i] IN
         IF t \in OpenTags
         THEN TextFrom(body, i + 1,
                       IF depth > 0 \/ t = OpenErrorMessage THEN depth + 1 ELSE 0)
         ELSE IF t \in CloseTags
         THEN TextFrom(body, i + 1, IF depth > 0 THEN depth - 1 ELSE 0)
         ELSE IF depth > 0 THEN <<t>> \o TextFrom(body, i + 1, depth)
         ELSE TextFrom(body, i + 1, depth)

ErrorCause(body) == TextFrom(body, 1, 0)

\* A mutant of ParseError: the empty document is rejected too.
ParseErrorOnEmpty(body) == body \in {BodyRejected, <<>>}

\* Whether goquery.NewDocumentFromReader returns an error for the body: the
\* error of html.Parse, which depends on the document alone.
ParseError(body) == body \in {BodyRejected}

\* ---------------------------------------------------------------- state
VARIABLES
    osArgs,         \* the command line: the flags given and the SRC arguments
    pc,             \* where main is
    exitCode,       \* the process exit code, once pc = "exited"
    iiifApiVersion, \* --iiif-api-version
    loglevel,       \* --loglevel
    strictMode,     \* --strict-mode
    thumbnail,      \* --thumbnails
    src,            \* the SRC arguments
    environ,        \* FESTERIZE_USERNAME and FESTERIZE_PASSWORD
    outExists,      \* whether the output directory exists
    outFiles,       \* the output directory: a set of [name, content], one per name
    stdin,          \* the lines standard input still holds
    requestHeaders, \* the headers main gives to uploadCSV
    idx,            \* the position of the loop in src
    response,       \* uploadCSV's response: its status code, 0 for nil
    body,           \* uploadCSV's response body
    err,            \* uploadCSV's error, "" for nil
    pending,        \* the exit code of the strict-mode exit main stands before
    logs,           \* the entries given to Logger, in order
    posts,          \* the requests given to client.Do, in order
    results         \* per SRC path reached: what happened to it

vars == <<osArgs, pc, exitCode, iiifApiVersion, loglevel, strictMode, thumbnail, src,
          environ, outExists, outFiles, stdin, requestHeaders, idx, response,
          body, err, pending, logs, posts, results>>

flags == <<iiifApiVersion, loglevel, strictMode, thumbnail, src>>

config == <<osArgs, flags, environ, stdin, requestHeaders>>

\* --iiifhost and --metadata-update, as cobra sets them from the command line.
iiifhost == osArgs.iiifhost

metadata == osArgs.metadata

\* The headers main builds before the loop.
MainHeaders == [n \in {"User-Agent"} |-> "Festerize/0.5.0"]

\* A log entry; i is the position in src of the path main is working on
\* (0 before the loop).
Entry(level, msg, filename, cause) ==
    [level |-> level, msg |-> msg, filename |-> filename, cause |-> cause,
     i |-> idx]

\* The record kept per path; the fields are filled in as main goes on.
NewResult(path) ==
    [path |-> path, absErr |-> FALSE, exists |-> FALSE, csv |-> FALSE,
     called |-> FALSE, err |-> "", status |-> 0, body |-> <<>>,
     statusRead |-> FALSE, parseErr |-> FALSE, createTried |-> FALSE,
     created |-> FALSE, written |-> FALSE, done |-> FALSE]

\* The state main starts in.  `lines` are the command lines; `unread` is
\* what standard input may hold when the output directory does not exist,
\* `typed` what it may hold when it does.
Begin(lines, unread, typed) ==
    /\ osArgs \in lines
    /\ pc = "execute"
    /\ exitCode = 0
    /\ iiifApiVersion = "3"
    /\ loglevel = "INFO"
    /\ strictMode = FALSE
    /\ thumbnail = FALSE
    /\ src = <<>>
    /\ environ \in [FESTERIZE_USERNAME : {"", "u"}, FESTERIZE_PASSWORD : {"", "p"}]
    /\ \/ outExists = FALSE /\ outFiles = {} /\ stdin \in unread
       \/ outExists = TRUE
          /\ outFiles \in {{}, {[name |-> Base(PathACsv), content |-> StaleFile]}}
          /\ stdin \in typed
    /\ requestHeaders = MainHeaders
    /\ idx = 0
    /\ response = 0
    /\ body = <<>>
    /\ err = ""
    /\ pending = 0
    /\ logs = <<>>
    /\ posts = <<>>
    /\ results = <<>>

\* Command lines: version, loglevel and iiifhost are "" for a flag that is
\* not given.
CommandLines(versions, loglevels, hosts, updates, argLists) ==
    [version : versions, loglevel : loglevels, strict : BOOLEAN,
     thumbnails : BOOLEAN, iiifhost : hosts, metadata : updates,
     src : argLists]

\* Runs with up to MaxPaths SRC arguments: a line is typed when the prompt
\* comes.
Init ==
    Begin(CommandLines(VersionFlags, LoglevelFlags, {""}, {FALSE}, ArgLists),
          {<<>>}, {<<a>> : a \in StdinAnswers})

\* Runs with at most one SRC argument, over the wider ranges of flag values:
\* standard input holds a line or is at its end when the prompt comes, and
\* may hold a line when it does not come.
CliStdin == {<<>>} \cup {<<a>> : a \in CliStdinAnswers}

InitCli ==
    Begin(CommandLines(CliVersionFlags, CliLoglevelFlags, CliHosts, BOOLEAN,
                       CliArgLists),
          {<<>>, <<(<<"n", "o">>)>>}, CliStdin)

\* ------------------------------------------------------ the file system
FileExists(name) == \E f \in outFiles : f.name = name

Content(name) == (CHOOSE f \in outFiles : f.name = name).content

\* A mutant of WithFile: an existing file is opened without truncation, and
\* what it held beyond the new content stays.
WithFileNoTruncate(name, content) ==
    LET old == IF FileExists(name) THEN Content(name) ELSE <<>>
        rest == IF Len(old) > Len(content)
                THEN SubSeq(old, Len(content) + 1, Len(old))
                ELSE <<>>
    IN  {f \in outFiles : f.name # name}
        \cup {[name |-> name, content |-> content \o rest]}

\* The directory after the file `name` holds `content` (os.Create truncates,
\* file.Write then appends to the empty file).
WithFile(name, content) ==
    {f \in outFiles : f.name # name} \cup {[name |-> name, content |-> content]}

\* ------------------------------------------------------------- helpers
ValidateLoglevel(level) == level \in {"INFO", "DEBUG", "ERROR"}

ValidateVersion(version) == version \in {"2", "3"}

\* os.Exit(code).
Exit(code) ==
    /\ pc' = "exited"
    /\ exitCode' = code

\* A mutant of NextPath: the loop steps over a path.
NextPathSkipsOne ==
    /\ pc' = "loop"
    /\ idx' = idx + 2
    /\ UNCHANGED exitCode

\* A mutant of NextPath: the output directory is seen to again before the
\* next path.
NextPathChecksDirAgain ==
    /\ pc' = "createdir"
    /\ idx' = idx + 1
    /\ UNCHANGED exitCode

\* The end of a loop body, and `continue`: on to the next path.
NextPath ==
    /\ pc' = "loop"
    /\ idx' = idx + 1
    /\ UNCHANGED exitCode

\* The upload URL main chooses.
\* --server, left at its default.
server == "https://ingest.iiif.library.ucla.edu"

\* A mutant of UploadUrl: only the first path goes to the thumbnail URL.
UploadUrlFirstOnly ==
    IF thumbnail /\ idx = 1
    THEN server \o "/thumbnails"
    ELSE server \o "/collections"

UploadUrl ==
    IF thumbnail THEN server \o "/thumbnails" ELSE server \o "/collections"

\* A mutant of StatusRead: the status code is read whatever the error is.
StatusReadAlways(e) == TRUE

\* Whether `err == nil && response.StatusCode == 201` reads the status code
\* of the response: && evaluates its right side only when the left is true.
StatusRead(e) == e = ""

\* A mutant of IsSuccess: every 2xx status passes.
IsSuccessAny2xx(e, status) == e = "" /\ status >= 200 /\ status < 300

\* main's test of what uploadCSV returned.
IsSuccess(e, status) == e = "" /\ status = StatusCreated

filename == Base(Abs(src[idx]))

SetResult(r) == results' = [results EXCEPT ![idx] = r]

\* ------------------------------------------------------------- actions
\* rootCmd.Run, called with the SRC arguments after cobra has set the flag
\* variables: v and l are "" for a flag not given.
Run(args, v, l, s, t) ==
    /\ iiifApiVersion' = (IF v = "" THEN iiifApiVersion ELSE v)
    /\ loglevel' = (IF l = "" THEN loglevel ELSE l)
    /\ strictMode' = s
    /\ thumbnail' = t
    /\ IF Len(args) = 0
       THEN \* cmd.Help(), os.Exit(0)
            /\ Exit(0)
            /\ UNCHANGED src
       ELSE IF ~ValidateVersion(iiifApiVersion')
       THEN /\ Exit(1)
            /\ UNCHANGED src
       ELSE IF ~ValidateLoglevel(loglevel')
       THEN /\ Exit(1)
            /\ UNCHANGED src
       ELSE /\ src' = src \o args
            /\ pc' = "createdir"
            /\ UNCHANGED exitCode

\* rootCmd.Execute: cobra parses the command line and calls Run.
Execute ==
    /\ pc = "execute"
    /\ Run(osArgs.src, osArgs.version, osArgs.loglevel, osArgs.strict,
           osArgs.thumbnails)
    /\ UNCHANGED <<osArgs, environ, outExists, outFiles, stdin, requestHeaders,
                   idx, response, body, err, pending, logs, posts, results>>

\* rootCmd.Execute returns an error (a flag cobra does not know).
ExecuteError ==
    /\ pc = "execute"
    /\ logs' = Append(logs, Entry("error", "Error setting command line", <<>>, <<"flag">>))
    /\ Exit(1)
    /\ UNCHANGED <<config, outExists, outFiles, idx, response, body, err,
                   pending, posts, results>>

\* A mutant of Declined: the answer is compared as typed.
DeclinedCaseSensitive(answer) ==
    /\ answer # <<"y", "e", "s">>
    /\ answer # <<"y">>
    /\ answer # <<>>

\* CreateOutputDir's test of the answer typed at its prompt.
Declined(answer) ==
    /\ ToLower(answer) # <<"y", "e", "s">>
    /\ ToLower(answer) # <<"y">>
    /\ answer # <<>>

\* A mutant of OutputDirFailed: the error ends the run in strict mode only.
OutputDirFailedStrictOnly(cause) ==
    /\ logs' = Append(logs, Entry("error", "Error creating output directory",
                                  <<>>, cause))
    /\ IF strictMode
       THEN /\ Exit(InvalidOutputSpecified)
            /\ UNCHANGED <<outExists, idx>>
       ELSE /\ pc' = "loop"
            /\ idx' = 1
            /\ UNCHANGED <<exitCode, outExists>>

\* main's handling of an error of CreateOutputDir.
OutputDirFailed(cause) ==
    /\ logs' = Append(logs, Entry("error", "Error creating output directory",
                                  <<>>, cause))
    /\ Exit(InvalidOutputSpecified)
    /\ UNCHANGED <<outExists, idx>>

\* CreateOutputDir and main's handling of its error.  fmt.Scanln takes a line
\* from standard input and leaves the answer empty at the end of input.
CreateOutputDir ==
    /\ pc = "createdir"
    /\ IF ~outExists
       THEN /\ \E mkdirOk \in BOOLEAN :
                 IF mkdirOk
                 THEN /\ outExists' = TRUE
                      /\ pc' = "loop"
                      /\ idx' = 1
                      /\ UNCHANGED <<exitCode, logs>>
                 ELSE OutputDirFailed(<<"error creating output directory">>)
            /\ UNCHANGED stdin
       ELSE LET answer == IF stdin = <<>> THEN <<>> ELSE Head(stdin) IN
            /\ stdin' = (IF stdin = <<>> THEN stdin ELSE Tail(stdin))
            /\ IF Declined(answer)
               THEN OutputDirFailed(<<"aborted">>)
               ELSE /\ pc' = "loop"
                    /\ idx' = 1
                    /\ UNCHANGED <<exitCode, logs, outExists>>
    /\ UNCHANGED <<osArgs, flags, environ, requestHeaders, outFiles, response,
                   body, err, pending, posts, results>>

\* A mutant of ResolvePath: the extension is tested before os.Stat.
ResolvePathExtensionFirst ==
    /\ pc = "loop"
    /\ idx <= Len(src)
    /\ \E absOk \in BOOLEAN, exists \in BOOLEAN :
         LET r == NewResult(src[idx]) IN
         IF ~absOk
         THEN /\ logs' = Append(logs, Entry("error", "Error getting absolute path",
                                            <<>>, <<"getwd">>))
              /\ results' = Append(results, [r EXCEPT !.absErr = TRUE])
              /\ pending' = FileIoError
              /\ pc' = "decide"
         ELSE IF ~EqualFold(Ext(filename), <<".", "c", "s", "v">>)
         THEN /\ logs' = Append(logs, Entry("error", "This file is not a CSV file",
                                            filename, <<>>))
              /\ results' = Append(results, [r EXCEPT !.exists = exists])
              /\ pending' = NonCsvFileSpecified
              /\ pc' = "decide"
         ELSE IF ~exists
         THEN /\ logs' = Append(logs, Entry("error", "File does not exist",
                                            filename, <<"no such file">>))
              /\ results' = Append(results, r)
              /\ pending' = NonExistentFileSpecified
              /\ pc' = "decide"
         ELSE /\ logs' = Append(logs, Entry("info", "Uploading file to Fester",
                                            filename, <<UploadUrl>>))
              /\ results' = Append(results, [r EXCEPT !.exists = TRUE, !.csv = TRUE])
              /\ pc' = "upload"
              /\ UNCHANGED pending
    /\ UNCHANGED <<exitCode, config, outExists, outFiles, idx, response, body,
                   err, posts>>

\* The head of the loop body: filepath.Abs, os.Stat and the extension test,
\* up to the call of uploadCSV.  `exists` is FALSE when os.Stat answers with
\* an error that os.IsNotExist accepts; with any other answer main goes on to
\* the extension test.
ResolvePath ==
    /\ pc = "loop"
    /\ idx <= Len(src)
    /\ \E absOk \in BOOLEAN, exists \in BOOLEAN :
         LET r == NewResult(src[idx]) IN
         IF ~absOk
         THEN /\ logs' = Append(logs, Entry("error", "Error getting absolute path",
                                            <<>>, <<"getwd">>))
              /\ results' = Append(results, [r EXCEPT !.absErr = TRUE])
              /\ pending' = FileIoError
              /\ pc' = "decide"
         ELSE IF ~exists
         THEN /\ logs' = Append(logs, Entry("error", "File does not exist",
                                            filename, <<"no such file">>))
              /\ results' = Append(results, r)
              /\ pending' = NonExistentFileSpecified
              /\ pc' = "decide"
         ELSE IF EqualFold(Ext(filename), <<".", "c", "s", "v">>)
         THEN /\ logs' = Append(logs, Entry("info", "Uploading file to Fester",
                                            filename, <<UploadUrl>>))
              /\ results' = Append(results, [r EXCEPT !.exists = TRUE, !.csv = TRUE])
              /\ pc' = "upload"
              /\ UNCHANGED pending
         ELSE /\ logs' = Append(logs, Entry("error", "This file is not a CSV file",
                                            filename, <<>>))
              /\ results' = Append(results, [r EXCEPT !.exists = TRUE])
              /\ pending' = NonCsvFileSpecified
              /\ pc' = "decide"
    /\ UNCHANGED <<exitCode, config, outExists, outFiles, idx, response, body,
                   err, posts>>

\* A mutant of UploadError: the password is not checked.
UploadErrorNoPasswordCheck(local, net) ==
    IF local # "" THEN local
    ELSE IF environ.FESTERIZE_USERNAME = "" THEN "basic auth username was not found"
    ELSE net

\* The error uploadCSV returns, "" for nil: `local` is what opening and
\* copying the file and building the request answer, `net` what client.Do
\* and reading the response body answer.
UploadError(local, net) ==
    IF local # "" THEN local
    ELSE IF environ.FESTERIZE_USERNAME = "" THEN "basic auth username was not found"
    ELSE IF environ.FESTERIZE_PASSWORD = "" THEN "basic auth password was not found"
    ELSE net

\* Whether uploadCSV got as far as client.Do.
Sent(e) == e \in {"", "transport", "readbody"}

\* The bytes of a source file (which the model tells apart by its path).
SourceCsv(file) == <<"id", PathString(file)>>

\* A part of a multipart body: the form name, the file name (empty for a
\* field) and the content.
Part(name, file, value) == [name |-> name, filename |-> file, value |-> value]

\* A mutant of MultipartBody: the iiif-host field is written always.
MultipartBodyHostAlways(filePath, iiifAPIVersion, iiifHost, metadataUpdate) ==
    <<Part("file", filePath, SourceCsv(filePath)),
      Part("iiif-version", <<>>, <<"v" \o iiifAPIVersion>>),
      Part("iiif-host", <<>>, <<iiifHost>>)>>
    \o (IF metadataUpdate
        THEN <<Part("metadata-update", <<>>, <<"true">>)>>
        ELSE <<>>)

\* The multipart body uploadCSV builds: CreateFormFile and io.Copy, then the
\* WriteField calls.
MultipartBody(filePath, iiifAPIVersion, iiifHost, metadataUpdate) ==
    <<Part("file", filePath, SourceCsv(filePath)),
      Part("iiif-version", <<>>, <<"v" \o iiifAPIVersion>>)>>
    \o (IF iiifHost # ""
        THEN <<Part("iiif-host", <<>>, <<iiifHost>>)>>
        ELSE <<>>)
    \o (IF metadataUpdate
        THEN <<Part("metadata-update", <<>>, <<"true">>)>>
        ELSE <<>>)

\* request.Header.Set for every entry of `more`, on the header h.
SetAll(h, more) ==
    [n \in DOMAIN h \cup DOMAIN more |->
        IF n \in DOMAIN more THEN more[n] ELSE h[n]]

\* request.SetBasicAuth: the Authorization header.
BasicAuth(username, password) ==
    [n \in {"Authorization"} |-> "Basic " \o username \o ":" \o password]

\* request.Header.Set("Content-Type", writer.FormDataContentType()).
ContentType == [n \in {"Content-Type"} |-> "multipart/form-data"]

\* A mutant of Header: the caller's headers are set first.
HeaderExtraFirst(username, password, headers) ==
    SetAll(SetAll(headers, BasicAuth(username, password)), ContentType)

\* The header of the request uploadCSV sends: the credentials, the content
\* type, then the caller's headers.
Header(username, password, headers) ==
    SetAll(SetAll(BasicAuth(username, password), ContentType), headers)

\* The request uploadCSV builds for the path main is at.
Request ==
    [i |-> idx, url |-> UploadUrl, file |-> Abs(src[idx]),
     parts |-> MultipartBody(Abs(src[idx]), iiifApiVersion, iiifhost, metadata),
     header |-> Header(environ.FESTERIZE_USERNAME, environ.FESTERIZE_PASSWORD,
                       requestHeaders)]

\* A mutant of ClientDo: a request that fails in transport is sent again.
ClientDoRetry(e) ==
    IF e = "transport" THEN <<Request, Request>>
    ELSE IF Sent(e) THEN <<Request>>
    ELSE <<>>

\* The requests uploadCSV gives to client.Do: one, if it gets that far.
ClientDo(e) == IF Sent(e) THEN <<Request>> ELSE <<>>

\* uploadCSV, called with the absolute path and the chosen URL.
UploadCSV ==
    /\ pc = "upload"
    /\ \E local \in {"", "open", "copy", "request"},
          net \in {"", "transport", "readbody"},
          answer \in Answers(Abs(src[idx])) :
         LET e == UploadError(local, net)
         IN  /\ err' = e
             /\ response' = (IF e = "" THEN answer.status ELSE 0)
             /\ body' = (IF e = "" THEN answer.body ELSE <<>>)
             /\ posts' = posts \o ClientDo(e)
             /\ SetResult([results[idx] EXCEPT
                              !.called = TRUE, !.err = e,
                              !.status = response', !.body = body'])
    /\ pc' = "respond"
    /\ UNCHANGED <<exitCode, config, outExists, outFiles, idx, pending, logs>>

\* The branch of main for err == nil && response.StatusCode == 201.
SaveResponse ==
    /\ pc = "respond"
    /\ IsSuccess(err, response)
    /\ \E createOk \in BOOLEAN, n \in 0..Len(body) :
         LET ok == Entry("info", "File was uploaded to Fester successfully", filename, <<>>)
             r == [results[idx] EXCEPT !.statusRead = StatusRead(err),
                                      !.createTried = TRUE]
         IN
         IF ~createOk
         THEN /\ logs' = logs \o <<ok, Entry("error", "Error creating file", <<>>, <<"create">>)>>
              /\ SetResult(r)
              /\ pending' = FileIoError
              /\ pc' = "decide"
              /\ UNCHANGED <<outFiles, idx, exitCode>>
         ELSE IF n < Len(body)
         THEN /\ outFiles' = WithFile(filename, SubSeq(body, 1, n))
              /\ logs' = logs \o <<ok, Entry("error", "Error writing to file", <<>>, <<"write">>)>>
              /\ SetResult([r EXCEPT !.created = TRUE])
              /\ pending' = FileIoError
              /\ pc' = "decide"
              /\ UNCHANGED <<idx, exitCode>>
         ELSE /\ outFiles' = WithFile(filename, body)
              /\ logs' = Append(logs, ok)
              /\ SetResult([r EXCEPT !.created = TRUE, !.written = TRUE, !.done = TRUE])
              /\ NextPath
              /\ UNCHANGED pending
    /\ UNCHANGED <<config, outExists, response, body, err, posts>>

\* The else branch: an error of uploadCSV or another status.
ReportFailure ==
    /\ pc = "respond"
    /\ ~IsSuccess(err, response)
    /\ LET parseOk == ~ParseError(body)
           posted == IF err # ""
                       THEN <<Entry("error", "There was an error creating and posting the request: ",
                                    <<>>, <<err>>)>>
                       ELSE <<>>
             errorCause == ErrorCause(body)
             got == [results[idx] EXCEPT !.statusRead = StatusRead(err)]
         IN
         IF ~parseOk
         THEN /\ logs' = logs \o posted \o
                         <<Entry("error", "Failed to parse error HTML", <<>>, <<"parse">>)>>
              /\ SetResult([got EXCEPT !.parseErr = TRUE, !.done = TRUE])
              /\ NextPath
              /\ UNCHANGED pending
         ELSE /\ logs' = logs \o posted \o
                         (IF errorCause # <<>>
                          THEN <<Entry("error", "Failed to upload file to Fester",
                                       filename, errorCause)>>
                          ELSE <<>>)
              /\ SetResult(got)
              /\ pending' = FesterErrorResponse
              /\ pc' = "decide"
              /\ UNCHANGED <<idx, exitCode>>
    /\ UNCHANGED <<config, outExists, outFiles, response, body, err, posts>>

\* A mutant of StrictExit: the test of strictMode is inverted.
StrictExitInverted ==
    /\ pc = "decide"
    /\ IF ~strictMode
       THEN /\ Exit(pending)
            /\ UNCHANGED <<idx, results>>
       ELSE /\ NextPath
            /\ SetResult([results[idx] EXCEPT !.done = TRUE])
    /\ UNCHANGED <<config, outExists, outFiles, response, body, err, pending,
                   logs, posts>>

\* if strictMode { os.Exit(int(pending)) }, and otherwise on to the next path.
StrictExit ==
    /\ pc = "decide"
    /\ IF strictMode
       THEN /\ Exit(pending)
            /\ UNCHANGED <<idx, results>>
       ELSE /\ NextPath
            /\ SetResult([results[idx] EXCEPT !.done = TRUE])
    /\ UNCHANGED <<config, outExists, outFiles, response, body, err, pending,
                   logs, posts>>

\* A mutant of MainReturn: main stays at the end of the loop.
MainReturnStays ==
    /\ pc = "loop"
    /\ idx > Len(src)
    /\ UNCHANGED vars

\* The loop is over and main returns.
MainReturn ==
    /\ pc = "loop"
    /\ idx > Len(src)
    /\ Exit(0)
    /\ UNCHANGED <<config, outExists, outFiles, idx, response, body, err,
                   pending, logs, posts, results>>

Next ==
    \/ Execute
    \/ ExecuteError
    \/ CreateOutputDir
    \/ ResolvePath
    \/ UploadCSV
    \/ SaveResponse
    \/ ReportFailure
    \/ StrictExit
    \/ MainReturn

Spec == Init /\ [][Next]_vars

\* The runs with at most one SRC argument, over the wider ranges of flag
\* values, typed answers and file names.
SpecCli == InitCli /\ [][Next]_vars

\* The runs of main as a sequential program: as long as it has not exited it
\* takes its next step, and every call it makes returns.  The command lines
\* are those with a valid version and up to MaxPaths SRC arguments, each a
\* CSV file or a text file.
LiveArgLists == UNION {SeqsOfLen({PathACsv, PathCTxt}, n) : n \in 0..MaxPaths}

InitLive ==
    Begin(CommandLines({"2"}, {""}, {""}, {FALSE}, LiveArgLists), {<<>>},
          {<<a>> : a \in StdinAnswers})

SpecLive == InitLive /\ [][Next]_vars /\ WF_vars(Next)

\* uploadCSV called on its own, as main_test.go calls it: with any headers,
\* for one existing CSV file.
HeaderNames == {"User-Agent", "Content-Type", "Authorization"}

HeaderMaps == UNION {[S -> {"extra"}] : S \in SUBSET HeaderNames}

InitUpload ==
    /\ osArgs \in CommandLines({"2", "3"}, {""}, CliHosts, BOOLEAN, {<<PathACsv>>})
    /\ pc = "upload"
    /\ exitCode = 0
    /\ iiifApiVersion = osArgs.version
    /\ loglevel = "INFO"
    /\ strictMode = osArgs.strict
    /\ thumbnail = osArgs.thumbnails
    /\ src = osArgs.src
    /\ environ \in [FESTERIZE_USERNAME : {"", "u"}, FESTERIZE_PASSWORD : {"", "p"}]
    /\ outExists = TRUE
    /\ outFiles = {}
    /\ stdin = <<>>
    /\ requestHeaders \in HeaderMaps
    /\ idx = 1
    /\ response = 0
    /\ body = <<>>
    /\ err = ""
    /\ pending = 0
    /\ logs = <<>>
    /\ posts = <<>>
    /\ results = <<[NewResult(PathACsv) EXCEPT !.exists = TRUE, !.csv = TRUE]>>

SpecUpload == InitUpload /\ [][UploadCSV]_vars

\* ------------------------------------------------- vocabulary of the claims
\* The loop of main has been entered.
LoopStarted == idx >= 1

\* main is through with the i-th path: it has moved on, or stands before
\* the strict-mode exit for it, or has exited at it.
Finished(i) ==
    /\ i \in DOMAIN results
    /\ \/ results[i].done
       \/ i = idx /\ pc \in {"decide", "exited"}

\* The name ends in .csv, letter case aside.
IsCsvName(path) ==
    /\ Len(path) >= 4
    /\ ToLower(SubSeq(path, Len(path) - 3, Len(path))) = <<".", "c", "s", "v">>

Missing(r) == ~r.absErr /\ ~r.exists

NotCsv(r) == ~r.absErr /\ r.exists /\ ~IsCsvName(r.path)

\* The service answered, and with an error status.
ErrorResponse(r) == r.called /\ r.err = "" /\ r.status >= 400

\* Creating or writing the output file failed.
OutputIoError(r) == r.createTried /\ ~r.written

Disqualified(r) == Missing(r) \/ NotCsv(r) \/ ErrorResponse(r) \/ OutputIoError(r)

\* An error-level entry for the i-th path.
ErrorLogged(i) == \E k \in DOMAIN logs : logs[k].level = "error" /\ logs[k].i = i

\* ------------------------------------------------------------------ C1
\* C1: in strict mode the first path, in input order, that is missing, is no
\* CSV, gets an error response or fails on local output ends the run: no
\* later path is resolved, uploaded or written.
C1_StrictStopsAtFirstFailure ==
    strictMode =>
        \A i \in DOMAIN results :
            Disqualified(results[i]) => Len(results) = i

\* ------------------------------------------------------------------ C2
\* C2: in lenient mode every path is processed to an outcome whatever happened
\* to the paths before it, and once the loop has started the exit code is 0.
C2_LenientProcessesAll ==
    (~strictMode /\ LoopStarted) =>
        /\ \A i \in DOMAIN results : i < idx <=> results[i].done
        /\ \A i \in DOMAIN results : results[i].path = src[i]
        /\ Len(results) \in {idx - 1, idx} \cap (0..Len(src))
        /\ pc = "exited" =>
              /\ exitCode = 0
              /\ Len(results) = Len(src)
              /\ \A i \in DOMAIN results : results[i].done

C2_Witness ==
    /\ ~strictMode
    /\ pc = "exited"
    /\ Len(src) = 2
    /\ Len(results) = 2
    /\ ErrorResponse(results[1])
    /\ results[2].written

\* ------------------------------------------------------------------ C3
\* C3: in strict mode the exit code is that of the first fatal condition: 2
\* for a missing file, 3 for a file that is no CSV, 5 for an error response,
\* 6 for a local file I/O error; 0 when no path fails.
ClaimedCode(r) ==
    IF r.absErr THEN 6
    ELSE IF Missing(r) THEN 2
    ELSE IF NotCsv(r) THEN 3
    ELSE IF ErrorResponse(r) THEN 5
    ELSE 6

C3_StrictExitCode ==
    (strictMode /\ LoopStarted /\ pc = "exited") =>
        /\ \A i \in DOMAIN results :
              ( /\ results[i].absErr \/ Disqualified(results[i])
                /\ \A j \in 1..(i - 1) : ~(results[j].absErr \/ Disqualified(results[j])) )
              => exitCode = ClaimedCode(results[i])
        /\ (Len(results) = Len(src) /\ \A i \in DOMAIN results : results[i].written)
              => exitCode = 0

\* ------------------------------------------------------------------ C4
\* The service answered the i-th path with 201 and uploadCSV returned no error.
Got201(r) == r.called /\ r.err = "" /\ r.status = 201

\* C4 as stated: a file is created or written in the output directory for a
\* path if and only if its upload ended in a 201 response.
C4_FileIffCreatedStatus ==
    \A i \in DOMAIN results :
        Finished(i) => (results[i].created <=> Got201(results[i]))

\* C4 as amended: main tries to create the output file for a path if and only
\* if its upload ended in a 201 response; a file is created or written only
\* then, and is created then unless os.Create fails; every step that changes
\* the output directory is the saving of a 201 response.
C4_FileOnlyForCreatedStatus ==
    /\ [](\A i \in DOMAIN results :
            /\ results[i].created => results[i].createTried
            /\ results[i].createTried => Got201(results[i])
            /\ Finished(i) => (results[i].createTried <=> Got201(results[i]))
            /\ results[i].created => FileExists(Base(Abs(results[i].path))))
    /\ [][outFiles' # outFiles =>
            /\ pc = "respond" /\ err = "" /\ response = 201
            /\ results'[idx].created]_vars

C4_Witness ==
    /\ Len(results) = 2
    /\ pc = "exited"
    /\ Got201(results[1]) /\ results[1].createTried /\ ~results[1].created
    /\ ~results[2].createTried /\ results[2].called /\ results[2].status = 200

\* ------------------------------------------------------------------ C5
\* The status the spec takes for a success in each mode.
SuccessStatus == IF thumbnail THEN 200 ELSE 201

\* C5: only 201 is a success in default mode and only 200 in thumbnail mode;
\* any other status takes the error path and writes nothing.
C5_SuccessStatusByMode ==
    \A i \in DOMAIN results :
        (Finished(i) /\ results[i].called /\ results[i].err = "") =>
            (results[i].createTried <=> results[i].status = SuccessStatus)

\* ------------------------------------------------------------------ C6
\* main has just left the i-th path.
JustAfter(i) ==
    \/ pc = "loop" /\ idx = i + 1
    \/ pc = "exited" /\ idx = i

SuccessLogged(i) ==
    \E k \in DOMAIN logs :
        /\ logs[k].i = i
        /\ logs[k].level = "info"
        /\ logs[k].msg = "File was uploaded to Fester successfully"

\* C6: when the upload of a path succeeds, a success entry is logged for it
\* and, right after its processing, the output file of its base name holds
\* exactly the response body (read here for the runs in which creating and
\* writing the output file do not fail).
C6_SuccessIsSaved ==
    \A i \in DOMAIN results :
        ( /\ JustAfter(i)
          /\ results[i].called /\ results[i].err = ""
          /\ results[i].status = SuccessStatus
          /\ ~OutputIoError(results[i]) )
        => /\ SuccessLogged(i)
           /\ FileExists(Base(Abs(results[i].path)))
           /\ Content(Base(Abs(results[i].path))) = results[i].body

\* ------------------------------------------------------------------ C7
\* C7: a path that does not exist or is no CSV is never uploaded and never
\* written, in either mode; it is logged, and in lenient mode the paths after
\* it are still processed.
C7_SkippedNeverUploaded ==
    /\ \A i \in DOMAIN results :
          (Missing(results[i]) \/ NotCsv(results[i])) =>
              /\ ~results[i].called
              /\ ~results[i].createTried
              /\ \A k \in DOMAIN posts : posts[k].i # i
              /\ ErrorLogged(i)
              /\ (~strictMode /\ pc = "exited") =>
                    \A j \in (i + 1)..Len(src) : j \in DOMAIN results /\ results[j].done
    /\ \A k \in DOMAIN posts : IsCsvName(src[posts[k].i])

C7_Witness ==
    /\ ~strictMode
    /\ pc = "exited"
    /\ Len(results) = 2
    /\ NotCsv(results[1])
    /\ results[2].written

\* ------------------------------------------------------------------ C8
HasErrorMessageElement(b) == \E k \in DOMAIN b : b[k] = OpenErrorMessage

\* The text of the (one, flat) element with id error-message.
ElementText(b) ==
    LET k == CHOOSE k \in DOMAIN b : b[k] = OpenErrorMessage
        e == CHOOSE e \in (k + 1)..Len(b) :
                /\ b[e] \in CloseTags
                /\ \A j \in (k + 1)..(e - 1) : b[j] \notin CloseTags
    IN  SubSeq(b, k + 1, e - 1)

\* C8: an error response whose HTML body has an element with id error-message
\* is logged as "Failed to upload file to Fester" with exactly the text of
\* that element as its cause, and in strict mode the run exits with 5.
C8_CauseLogged ==
    \A i \in DOMAIN results :
        ( /\ Finished(i)
          /\ ErrorResponse(results[i])
          /\ ~ParseError(results[i].body)
          /\ HasErrorMessageElement(results[i].body) )
        => /\ \E k \in DOMAIN logs :
                 /\ logs[k].i = i
                 /\ logs[k].level = "error"
                 /\ logs[k].msg = "Failed to upload file to Fester"
                 /\ logs[k].cause = ElementText(results[i].body)
           /\ (strictMode /\ pc = "exited") => exitCode = 5

\* ------------------------------------------------------------------ C9
\* C9: every per-file error has its error-level entry before main acts on it:
\* before the strict-mode exit, and before main moves on.
C9_ErrorLoggedBeforeActing ==
    /\ ( /\ pc = "decide"
         /\ pending = FesterErrorResponse => (err # "" \/ response >= 400) )
       => ErrorLogged(idx)
    /\ \A i \in DOMAIN results :
          ( /\ results[i].done
            /\ \/ results[i].absErr
               \/ Disqualified(results[i])
               \/ results[i].err # "" )
          => ErrorLogged(i)

\* ----------------------------------------------------------------- C10
CredentialMissing ==
    environ.FESTERIZE_USERNAME = "" \/ environ.FESTERIZE_PASSWORD = ""

UploadErrorLogged(i) ==
    \E k \in DOMAIN logs :
        /\ logs[k].i = i
        /\ logs[k].level = "error"
        /\ logs[k].msg = "There was an error creating and posting the request: "
        /\ logs[k].cause = <<results[i].err>>

\* C10: with the username or the password missing or empty, uploadCSV returns
\* an error without any network call, and in lenient mode the failure is
\* reported for every path that reaches the upload; none is written.
C10_NoCredentialsNoNetwork ==
    CredentialMissing =>
        /\ posts = <<>>
        /\ \A f \in outFiles : f.content = StaleFile
        /\ \A i \in DOMAIN results :
              /\ results[i].called => (results[i].err # "" /\ ~results[i].createTried)
              /\ (results[i].called /\ Finished(i)) => UploadErrorLogged(i)
              /\ (~strictMode /\ pc = "exited") =>
                    \A j \in (i + 1)..Len(src) : j \in DOMAIN results /\ results[j].done

C10_Witness ==
    /\ environ.FESTERIZE_USERNAME = "u"
    /\ environ.FESTERIZE_PASSWORD = ""
    /\ ~strictMode
    /\ pc = "exited"
    /\ Len(results) = 2
    /\ results[1].called /\ results[1].err = "basic auth password was not found"
    /\ results[2].called /\ results[2].done

\* ------------------------------------------------------------------ C11
\* The answers CreateOutputDir takes for a yes: "y" or "yes" in any letter
\* case, or nothing.
YesAnswers ==
    {<<>>} \cup {<<a>> : a \in {"y", "Y"}}
    \cup {<<a, b, c>> : a \in {"y", "Y"}, b \in {"e", "E"}, c \in {"s", "S"}}

\* The answer standard input gives to the prompt.
Typed == IF stdin = <<>> THEN <<>> ELSE Head(stdin)

\* A step of main in which the output directory is not created (it is still
\* missing afterwards) or not confirmed (the answer is not a yes).
OutputDirRefused ==
    /\ pc = "createdir"
    /\ pc' # "createdir"
    /\ \/ ~outExists /\ ~outExists'
       \/ outExists /\ Typed \notin YesAnswers

\* C11: a failure to create or to confirm the output directory ends the run
\* with exit code 7 in strict and in lenient mode, before any path is
\* resolved or uploaded and with the output directory untouched.
C11_OutputDirFailureIsFatal ==
    [][OutputDirRefused =>
          /\ pc' = "exited"
          /\ exitCode' = InvalidOutputSpecified
          /\ results' = <<>>
          /\ posts' = <<>>
          /\ idx' = 0
          /\ outFiles' = outFiles]_vars

C11_Witness ==
    /\ pc = "exited"
    /\ exitCode = InvalidOutputSpecified
    /\ ~strictMode
    /\ src # <<>>
    /\ outExists
    /\ results = <<>>
    /\ \E k \in DOMAIN logs : logs[k].cause = <<"aborted">>

\* ------------------------------------------------------------------ C12
\* A step through CreateOutputDir.
OutputDirStep == pc = "createdir" /\ pc' # "createdir"

\* CreateOutputDir returned nil: main goes on to the loop.
OutputDirOk == pc' = "loop" /\ logs' = logs

\* CreateOutputDir returned the error with this text: main logs it.
OutputDirError(text) ==
    /\ pc' = "exited"
    /\ Len(logs') = Len(logs) + 1
    /\ logs'[Len(logs')].cause = <<text>>

\* The prompt was shown and a line taken from standard input.
Asked == stdin' = (IF stdin = <<>> THEN stdin ELSE Tail(stdin))

\* An existing directory: the answer decides, and the directory stays as it
\* was.
ExistingDirConfirmed ==
    outExists =>
        /\ Asked
        /\ OutputDirOk <=> Typed \in YesAnswers
        /\ Typed \notin YesAnswers => OutputDirError("aborted")
        /\ outExists' /\ outFiles' = outFiles

\* C12 as stated: CreateOutputDir succeeds without asking when the directory
\* does not exist, creating it; when it exists it asks and succeeds exactly
\* for "y", "yes" (any letter case) or an empty answer, and returns "aborted"
\* otherwise, leaving the directory as it was.
C12_CreateOutputDirAsStated ==
    [][OutputDirStep =>
          /\ ~outExists => (stdin' = stdin /\ OutputDirOk /\ outExists')
          /\ ExistingDirConfirmed]_vars

\* C12, amended: a missing directory is created without asking, and
\* CreateOutputDir succeeds exactly when the creation does; it returns
\* "error creating output directory" when it does not.  The existing
\* directory is as stated.
C12_CreateOutputDir ==
    [][OutputDirStep =>
          /\ ~outExists =>
                /\ stdin' = stdin
                /\ OutputDirOk <=> outExists'
                /\ ~outExists' => OutputDirError("error creating output directory")
                /\ outFiles' = outFiles
          /\ ExistingDirConfirmed]_vars

\* The directory was created although a "no" was waiting on standard input.
C12_Witness ==
    /\ LoopStarted
    /\ outExists
    /\ outFiles = {}
    /\ stdin = <<(<<"n", "o">>)>>

\* ------------------------------------------------------------------ C13
\* A flag is given with a value outside the accepted ones.
BadFlagValue ==
    \/ osArgs.version \notin {"", "2", "3"}
    \/ osArgs.loglevel \notin {"", "INFO", "DEBUG", "ERROR"}

\* The version is given as 2 or 3 and the log level, if given, is INFO, DEBUG
\* or ERROR.
GoodFlagValues ==
    /\ osArgs.version \in {"2", "3"}
    /\ osArgs.loglevel \in {"", "INFO", "DEBUG", "ERROR"}

\* C13: the versions 2 and 3 and the log levels INFO, DEBUG and ERROR are
\* accepted (a run with SRC arguments goes on to the output directory with
\* the values given); any other value ends the run with exit code 1 before
\* the output directory is created or confirmed and before any path is
\* processed.
C13_ValidationExact ==
    [][pc = "execute" =>
          /\ BadFlagValue =>
                /\ pc' = "exited"
                /\ exitCode' = 1
                /\ UNCHANGED <<outExists, outFiles, stdin, results, posts, idx>>
          /\ (GoodFlagValues /\ osArgs.src # <<>> /\ logs' = logs) =>
                /\ pc' = "createdir"
                /\ iiifApiVersion' = osArgs.version
                /\ osArgs.loglevel # "" => loglevel' = osArgs.loglevel]_vars

\* ------------------------------------------------------------------ C14
\* C14: a run with SRC arguments but without --iiif-api-version is rejected
\* with exit code 1, and nothing is uploaded.
C14_VersionRequired ==
    (pc # "execute" /\ osArgs.src # <<>> /\ osArgs.version = "") =>
        /\ pc = "exited"
        /\ exitCode = 1
        /\ results = <<>>
        /\ posts = <<>>

\* ------------------------------------------------------------------ C15
\* C15: a run without SRC arguments exits with code 1 (NoFilesSpecified);
\* the output directory is not created and nothing is uploaded.
C15_NoFilesExitCode ==
    [][(pc = "execute" /\ osArgs.src = <<>>) =>
          /\ pc' = "exited"
          /\ exitCode' = NoFilesSpecified
          /\ UNCHANGED <<outExists, outFiles, stdin, results, posts, idx>>]_vars

\* ------------------------------------------------------------------ C16
\* The paths reached so far are the first ones of src, in order, and all but
\* the last of them are finished.
InInputOrder ==
    /\ Len(results) = (IF pc = "loop" \/ idx > Len(src) THEN idx - 1 ELSE idx)
    /\ Len(results) <= Len(src)
    /\ \A i \in DOMAIN results :
          /\ results[i].path = src[i]
          /\ i < Len(results) => results[i].done

\* The requests sent so far are for different paths, in input order, each
\* answered and its path finished before the next one is sent.
UploadsInInputOrder ==
    \A k \in DOMAIN posts :
        LET i == posts[k].i IN
        /\ i \in DOMAIN results
        /\ results[i].called
        /\ posts[k].file = Abs(src[i])
        /\ \A l \in DOMAIN posts : k < l => (i < posts[l].i /\ results[i].done)

\* C16: the paths are processed one after the other in input order; a path
\* is finished before anything is done for the next one, the uploads go out
\* in input order, and no upload is sent while an earlier one is unanswered.
C16_SequentialInOrder ==
    /\ [](LoopStarted => (InInputOrder /\ UploadsInInputOrder))
    /\ [][/\ idx' \in {idx, idx + 1}
          /\ (idx >= 1 /\ idx' = idx + 1) =>
                (Len(results') = idx /\ results'[idx].done)
          /\ posts' # posts =>
                (Len(posts') = Len(posts) + 1 /\ posts'[Len(posts')].i = idx)]_vars

C16_Witness ==
    /\ pc = "respond"
    /\ Len(posts) = 2
    /\ posts[1].i = 1
    /\ posts[2].i = 2
    /\ src[1] # src[2]

\* ------------------------------------------------------------------ C17
\* The requests sent for the i-th path.
Attempts(i) == {k \in DOMAIN posts : posts[k].i = i}

\* C17: at most one request is sent per input path, whatever comes of it
\* (transport error, unreadable body, any status); uploadCSV is called at
\* most once per path, and a path for which it failed or was answered with
\* another status than 201 is finished without a second attempt.
C17_NoRetry ==
    /\ [](\A i \in 1..Len(src) : Cardinality(Attempts(i)) <= 1)
    /\ [][\A i \in DOMAIN results :
            results[i].called =>
                /\ results'[i].called
                /\ Attempts(i)' = Attempts(i)
                /\ results'[i].status = results[i].status
                /\ results'[i].err = results[i].err]_vars

C17_Witness ==
    /\ pc = "exited"
    /\ exitCode = 0
    /\ Len(results) = 2
    /\ results[1].err = "transport"
    /\ results[2].called /\ results[2].status = 500
    /\ Cardinality(Attempts(1)) = 1
    /\ Cardinality(Attempts(2)) = 1

\* ------------------------------------------------------------------ C18
\* The upload of the i-th path succeeded and its response was written.
Written(i) == results[i].written

\* No os.Create and no file.Write of the run failed.
NoOutputIoError ==
    \A j \in DOMAIN results : results[j].createTried => results[j].written

\* C18: at the end of a run (in which no write to the output directory
\* failed), for every path whose upload succeeded and was written, the output
\* directory holds the file named by the path's base name, with the response
\* body returned for that path as its content.
C18_OneFilePerSuccess ==
    (pc = "exited" /\ NoOutputIoError) =>
        \A i \in DOMAIN results :
            Written(i) =>
                /\ FileExists(Base(Abs(results[i].path)))
                /\ Content(Base(Abs(results[i].path))) = results[i].body

\* ------------------------------------------------------------------ C19
\* The step in which the response for the path main is at is written in full.
WritesResponse ==
    /\ pc = "respond"
    /\ results'[idx].written

\* The same path was uploaded and written earlier in the run, with the same
\* response.
WrittenBefore ==
    \E i \in 1..(idx - 1) :
        /\ results[i].written
        /\ results[i].path = src[idx]
        /\ results[i].body = body
        /\ \A j \in (i + 1)..(idx - 1) : ~results[j].createTried

\* C19: a write puts exactly the response body under the base name of the
\* path, whatever a file of that name held before, and leaves the other
\* files alone; writing the same response for the same path a second time
\* leaves the output directory as the first write left it.
C19_OverwriteNoResidue ==
    [][WritesResponse =>
          /\ outFiles' = {f \in outFiles : f.name # filename}
                             \cup {[name |-> filename, content |-> body]}
          /\ WrittenBefore => outFiles' = outFiles]_vars

\* The same file written twice over a longer file of an earlier run.
C19_Witness ==
    /\ pc = "exited"
    /\ src = <<PathACsv, PathACsv>>
    /\ Len(results) = 2
    /\ results[1].written /\ results[2].written
    /\ results[1].body = results[2].body
    /\ outFiles = {[name |-> Base(PathACsv), content |-> results[2].body]}
    /\ Len(results[2].body) < Len(StaleFile)
    /\ stdin = <<>> /\ osArgs.src = src

\* ------------------------------------------------------------------ C20
\* The names whose final extension is "csv" in some letter case, and the
\* others: another final extension, no extension, a dot in a directory name
\* only.
CsvNamed == {PathACsv, PathDACsv, PathBUpper, PathEMixed, PathTxtCsv}
NotCsvNamed == {PathCTxt, PathNoExt, PathCsvTxt, PathDotDir}

\* The i-th path was rejected as not a CSV file.
RejectedAsNotCsv(i) ==
    /\ ~results[i].called
    /\ \E k \in DOMAIN logs :
          /\ logs[k].i = i
          /\ logs[k].msg = "This file is not a CSV file"
          /\ logs[k].filename = Base(Abs(results[i].path))
    /\ (pc = "exited" /\ idx = i) => exitCode = NonCsvFileSpecified

\* C20: an existing file passes the CSV check exactly if the final extension
\* of its name is "csv" in any letter case (a.csv, b.CSV, e.Csv, g.txt.csv);
\* c.txt, f.csv.txt and names without extension are rejected.
C20_CsvCheck ==
    \A i \in DOMAIN results :
        results[i].exists =>
            /\ results[i].path \in CsvNamed \cup NotCsvNamed
            /\ results[i].csv <=> results[i].path \in CsvNamed
            /\ results[i].path \in NotCsvNamed => RejectedAsNotCsv(i)

C20_Witness ==
    /\ Len(results) = 1
    /\ results[1].path = PathEMixed
    /\ results[1].called
    /\ results[1].status = StatusCreated
    /\ FileExists(Base(PathEMixed))

\* ------------------------------------------------------------------ C21
\* uploadCSV returned an error for the i-th path.
UploadFailed(i) == results[i].called /\ results[i].err # ""

\* C21: when uploadCSV returns an error (file not opened or read, request
\* not built, credentials missing, transport failure, body not read), the
\* error is logged, no output file is created or written for the path, and
\* the run ends at that path with exit code 5 in strict mode and goes on
\* with the next path in lenient mode.
C21_UploadErrorHandled ==
    \A i \in DOMAIN results :
        UploadFailed(i) =>
            /\ ~results[i].createTried
            /\ Finished(i) => UploadErrorLogged(i)
            /\ strictMode => (~results[i].done /\ Len(results) = i)
            /\ (strictMode /\ pc = "exited") => exitCode = FesterErrorResponse
            /\ (~strictMode /\ pc = "exited") =>
                  /\ exitCode = 0
                  /\ \A j \in i..Len(src) : j \in DOMAIN results /\ results[j].done

C21_Witness ==
    /\ strictMode
    /\ pc = "exited"
    /\ exitCode = FesterErrorResponse
    /\ Len(src) = 2
    /\ Len(results) = 1
    /\ results[1].err = "readbody"
    /\ UploadErrorLogged(1)

\* ------------------------------------------------------------------ C22
\* C22: in strict mode every answer with an error status ends the run at its
\* path with exit code 5, whether or not a cause can be taken from the body
\* (unparseable HTML, no #error-message element, empty element).
C22_StrictExitOnAnyServerError ==
    strictMode =>
        \A i \in DOMAIN results :
            ErrorResponse(results[i]) =>
                /\ ~results[i].done
                /\ Len(results) = i
                /\ pc = "exited" => exitCode = FesterErrorResponse

\* ------------------------------------------------------------------ C23
\* The form names of the parts of a request, in order.
PartNames(request) == [n \in DOMAIN request.parts |-> request.parts[n].name]

\* The part of a request with this form name.
PartNamed(request, name) ==
    request.parts[CHOOSE n \in DOMAIN request.parts : request.parts[n].name = name]

\* C23: the body of every request holds, in this order, the part "file" with
\* the absolute path as its file name and the bytes of the source file as
\* its content, the field iiif-version with "v" and the API version, the
\* field iiif-host exactly if --iiifhost is not empty (with its value), and
\* the field metadata-update = true exactly if --metadata-update is set.
C23_MultipartParts ==
    \A k \in DOMAIN posts :
        LET request == posts[k]
            path == src[request.i]
        IN  /\ PartNames(request) =
                  <<"file", "iiif-version">>
                  \o (IF osArgs.iiifhost # "" THEN <<"iiif-host">> ELSE <<>>)
                  \o (IF osArgs.metadata THEN <<"metadata-update">> ELSE <<>>)
            /\ request.parts[1].filename = Join(Cwd, path)
            /\ request.parts[1].value = SourceCsv(Join(Cwd, path))
            /\ request.parts[2].filename = <<>>
            /\ request.parts[2].value =
                  <<IF iiifApiVersion = "2" THEN "v2" ELSE "v3">>
            /\ osArgs.iiifhost # "" =>
                  /\ PartNamed(request, "iiif-host").value = <<osArgs.iiifhost>>
                  /\ PartNamed(request, "iiif-host").filename = <<>>
            /\ osArgs.metadata =>
                  /\ PartNamed(request, "metadata-update").value = <<"true">>
                  /\ PartNamed(request, "metadata-update").filename = <<>>

C23_Witness ==
    /\ Len(posts) = 1
    /\ Len(posts[1].parts) = 4
    /\ iiifApiVersion = "2"
    /\ osArgs.version = "2"
    /\ src = <<PathBUpper>>

\* ------------------------------------------------------------------ C24
\* The URL the mode of the run selects.
ModeUrl ==
    IF osArgs.thumbnails
    THEN "https://ingest.iiif.library.ucla.edu/thumbnails"
    ELSE "https://ingest.iiif.library.ucla.edu/collections"

\* C24: every request of a run goes to {server}/thumbnails when --thumbnails
\* is set and to {server}/collections otherwise, the same for all paths; it
\* is the URL logged before the upload.
C24_UrlByMode ==
    /\ \A k \in DOMAIN posts : posts[k].url = ModeUrl
    /\ \A k \in DOMAIN logs :
          logs[k].msg = "Uploading file to Fester" => logs[k].cause = <<ModeUrl>>

C24_Witness ==
    /\ osArgs.thumbnails
    /\ Len(posts) = 2
    /\ posts[1].url = posts[2].url
    /\ posts[1].file # posts[2].file

\* ------------------------------------------------------------------ C25
\* C25: the headers given to uploadCSV are set after the credentials and the
\* content type: the request carries the given value for every header name
\* given (Authorization and Content-Type included), and the credentials and
\* the multipart content type for these two names when they are not given.
C25_ExtraHeadersLast ==
    \A k \in DOMAIN posts :
        LET header == posts[k].header IN
        /\ DOMAIN header = {"Authorization", "Content-Type"} \cup DOMAIN requestHeaders
        /\ \A n \in DOMAIN requestHeaders : header[n] = requestHeaders[n]
        /\ "Authorization" \notin DOMAIN requestHeaders =>
              header["Authorization"] = "Basic u:p"
        /\ "Content-Type" \notin DOMAIN requestHeaders =>
              header["Content-Type"] = "multipart/form-data"

C25_Witness ==
    /\ Len(posts) = 1
    /\ DOMAIN requestHeaders = {"Authorization", "Content-Type"}
    /\ posts[1].header["Authorization"] = "extra"
    /\ pc = "respond"
    /\ response = StatusCreated

\* ------------------------------------------------------------------ C26
\* CreateOutputDir is being called.
AtCreateOutputDir == pc = "createdir"

\* C26: the output directory is seen to once in a run that gets to its paths,
\* before the first path: main comes to CreateOutputDir only from
\* rootCmd.Execute, which it never comes back to, and leaves it in one step;
\* once the loop has started main is past CreateOutputDir, and no step
\* creates the directory, asks for a confirmation or reports an error of the
\* output directory.
C26_OutputDirOnce ==
    /\ [](LoopStarted => pc \notin {"execute", "createdir"})
    /\ [][/\ pc' = "execute" => pc = "execute"
          /\ (AtCreateOutputDir' /\ ~AtCreateOutputDir) => (pc = "execute" /\ ~LoopStarted)
          /\ AtCreateOutputDir => ~AtCreateOutputDir'
          /\ LoopStarted =>
                /\ ~AtCreateOutputDir'
                /\ outExists' = outExists
                /\ stdin' = stdin
                /\ \A k \in DOMAIN logs' :
                      logs'[k].msg = "Error creating output directory" =>
                          k \in DOMAIN logs]_vars

C26_Witness ==
    /\ pc = "exited"
    /\ Len(results) = 2
    /\ results[1].created
    /\ results[2].created
    /\ outExists
    /\ stdin = <<>>

\* ------------------------------------------------------------------ C27
\* client.Do failed for the i-th path: the service could not be reached.
Unreachable(i) == results[i].called /\ results[i].err = "transport"

\* C27: no run ends with the code FesterUnavailable.  Every request is the
\* upload of a CSV path of the run (there is no request before the loop), and
\* a service that cannot be reached is an error of uploadCSV for that path:
\* no status, no output file, the error logged, the strict run ends at the
\* path with FesterErrorResponse and the lenient run goes on and ends with 0.
C27_NeverFesterUnavailable ==
    /\ exitCode # FesterUnavailable
    /\ pending # FesterUnavailable
    /\ \A k \in DOMAIN posts :
          posts[k].i \in DOMAIN results /\ results[posts[k].i].csv
    /\ \A i \in DOMAIN results :
          Unreachable(i) =>
              /\ results[i].status = 0
              /\ ~results[i].createTried
              /\ Finished(i) => UploadErrorLogged(i)
              /\ strictMode => (~results[i].done /\ Len(results) = i)
              /\ (strictMode /\ pc = "exited") => exitCode = FesterErrorResponse
              /\ (~strictMode /\ pc = "exited") => exitCode = 0

C27_Witness ==
    /\ strictMode
    /\ pc = "exited"
    /\ exitCode = FesterErrorResponse
    /\ Len(results) = 1
    /\ Unreachable(1)
    /\ Len(src) = 2

\* ------------------------------------------------------------------ C28
\* The path of r does not exist and its name does not end in .csv.
MissingNonCsv(r) ==
    /\ ~r.absErr
    /\ ~r.exists
    /\ ~EqualFold(Ext(Base(Abs(r.path))), <<".", "c", "s", "v">>)

\* C28: the existence of a path is tested before its extension.  The step
\* that takes up a path which does not exist and does not end in .csv logs
\* "File does not exist" for it and nothing else, and sets the code
\* NonExistentFileSpecified; the strict run then ends at that path with this
\* code, never with NonCsvFileSpecified.
C28_ExistenceBeforeExtension ==
    /\ [](\A i \in DOMAIN results :
            MissingNonCsv(results[i]) =>
                /\ ~results[i].csv /\ ~results[i].called
                /\ (i = idx /\ pc = "decide") => pending = NonExistentFileSpecified
                /\ strictMode => (~results[i].done /\ Len(results) = i)
                /\ (strictMode /\ pc = "exited") =>
                      exitCode = NonExistentFileSpecified)
    /\ [][(Len(results') = Len(results) + 1 /\ MissingNonCsv(results'[Len(results')])) =>
             /\ Len(logs') = Len(logs) + 1
             /\ logs'[Len(logs')].msg = "File does not exist"
             /\ logs'[Len(logs')].filename = Base(Abs(results'[Len(results')].path))
             /\ pending' = NonExistentFileSpecified
             /\ pc' = "decide"]_vars

C28_Witness ==
    /\ strictMode
    /\ pc = "exited"
    /\ exitCode = NonExistentFileSpecified
    /\ Len(results) = 1
    /\ MissingNonCsv(results[1])
    /\ results[1].path = PathCTxt

\* ------------------------------------------------------------------ C29
\* C29: uploadCSV returns a response and no error, or an error and no
\* response (and no body); main reads the status code of the response only
\* when there is no error, so never that of a nil response.  The status of a
\* nil response is 0 in the model.
C29_ResponseOnlyWithoutError ==
    /\ pc = "respond" => (err = "" <=> response # 0)
    /\ \A i \in DOMAIN results :
          LET r == results[i] IN
          /\ r.called => (r.err = "" <=> r.status # 0)
          /\ (r.called /\ r.err # "") => r.body = <<>>
          /\ r.statusRead => (r.called /\ r.err = "" /\ r.status # 0)
          /\ (r.called /\ r.err = "" /\ Finished(i)) => r.statusRead

C29_Witness ==
    /\ Len(results) = 2
    /\ UploadFailed(1) /\ results[1].done /\ ~results[1].statusRead
    /\ results[2].statusRead /\ results[2].written

\* ------------------------------------------------------------------ C30
\* C30: every run ends.  The paths are taken up in order, each at most once
\* (the index never goes back and the record of a path is added once), and
\* a run that has entered the loop ends at a path in strict mode or after the
\* last path.
C30_RunTerminates ==
    /\ <>(pc = "exited")
    /\ [](/\ Len(results) <= Len(src)
          /\ \A i \in DOMAIN results : results[i].path = src[i]
          /\ (pc = "exited" /\ LoopStarted) =>
                \/ idx = Len(src) + 1 /\ exitCode = 0
                \/ idx \in DOMAIN src /\ strictMode /\ exitCode # 0)
    /\ [][/\ idx' \in {idx, idx + 1}
          /\ Len(results') \in {Len(results), Len(results) + 1}
          /\ Len(results') = Len(results) + 1 => Len(results') = idx
          /\ pc = "exited" => pc' = "exited"]_vars

C30_Witness ==
    /\ pc = "exited"
    /\ ~strictMode
    /\ Len(src) = MaxPaths
    /\ idx = MaxPaths + 1
    /\ \A i \in DOMAIN src : i \in DOMAIN results /\ results[i].done

====
